---- MODULE Spec2Model ----
(***************************************************************************)
(* Model of crates/motionfile/src/motion_interpolator.rs: the motion       *)
(* sequencing state machine MotionInterpolator<T>.                         *)
(*                                                                         *)
(* Durations are integers counting quarter seconds (1 = 0.25 s, 4 = 1 s).  *)
(* Positions (the generic T) are integers counting half units (20 = 10.0). *)
(* Option<X> is a sequence: << >> is None and << x >> is Some(x).          *)
(* Vec indices are 0-based as in the source; frames[i] of the source is    *)
(* frames[i + 1] here.                                                     *)
(***************************************************************************)
EXTENDS Integers, Sequences, FiniteSets, TLC

VARIABLES
    frames,         \* MotionInterpolator::frames
    current_state,  \* MotionInterpolator::current_state
    panicked,       \* TRUE once a call has panicked (index out of bounds)
    last_op,        \* history: the last call made on the interpolator
    prev_state,     \* history: current_state before the last call
    ticks,          \* history: advance_by calls since construction / reset
    steps,          \* history: the time steps used since construction / reset
    visited,        \* history: distinct phases (variant, index) since then
    construction    \* history: the motion file handed to try_from and the outcome

vars ==
    <<frames, current_state, panicked, last_op, prev_state, ticks, steps, visited,
      construction>>

(***************************************************************************)
(* Bounds of the model.                                                    *)
(***************************************************************************)
MaxFrames == 2   \* longest motion (number of keyframe groups) explored
MaxTicks == 8    \* advance_by calls explored between two resets

TimeSteps == {1, 4}          \* time_step arguments: 0.25 s and 1 s
RebasePositions == {0, 6}    \* set_initial_positions arguments

(***************************************************************************)
(* Response and conditions (crate::condition).                             *)
(***************************************************************************)
Response == {"Abort", "Continue", "Wait"}

Sensors == {"a", "b"}
Readings == 1 .. 3

\* types::ConditionInput: one discretised reading per sensor
ConditionInput == [Sensors -> Readings]

\* Condition::evaluate: a condition reads one sensor and answers by its table
evaluate(condition, condition_input) ==
    condition.response[condition_input[condition.sensor]]

\* TimeOut::timeout: the budget is used up once the elapsed time reaches it
timeout(condition, time_since_start) ==
    /\ condition.timeout_duration # << >>
    /\ time_since_start >= condition.timeout_duration[1]

\* Response::with_timeout: a timed-out Wait is escalated to Abort
with_timeout(response, timed_out) ==
    IF response = "Wait" /\ timed_out THEN "Abort" ELSE response

\* a condition whose verdict follows the reading: 1 Continue, 2 Wait, 3 Abort
Follow(sensor, timeout_duration) ==
    [sensor |-> sensor, response |-> <<"Continue", "Wait", "Abort">>,
     timeout_duration |-> timeout_duration]

\* a condition that answers Wait on every input
AlwaysWait(timeout_duration) ==
    [sensor |-> "a", response |-> <<"Wait", "Wait", "Wait">>,
     timeout_duration |-> timeout_duration]

(***************************************************************************)
(* TimedSpline (crate::timed_spline), linear interpolation.                *)
(* A spline is [start, keyframes], keyframes a sequence of                 *)
(* [duration, positions].                                                  *)
(***************************************************************************)
RECURSIVE SumDurations(_)
SumDurations(keyframes) ==
    IF keyframes = << >> THEN 0
    ELSE keyframes[1].duration + SumDurations(Tail(keyframes))

total_duration(spline) == SumDurations(spline.keyframes)

start_position(spline) == spline.start

end_position(spline) == spline.keyframes[Len(spline.keyframes)].positions

\* linear interpolation from `from` over the keyframes, clamped at the end
RECURSIVE InterpolateFrom(_, _, _)
InterpolateFrom(from, keyframes, time) ==
    IF Len(keyframes) = 1 /\ time >= keyframes[1].duration
    THEN keyframes[1].positions
    ELSE IF time < keyframes[1].duration
    THEN from + ((keyframes[1].positions - from) * time) \div keyframes[1].duration
    ELSE InterpolateFrom(keyframes[1].positions, Tail(keyframes),
                         time - keyframes[1].duration)

value_at(spline, time) == InterpolateFrom(spline.start, spline.keyframes, time)

\* TimedSpline::set_initial_positions
spline_set_initial_positions(spline, position) ==
    [spline EXCEPT !.start = position]

\* TimedSpline::try_new_with_start: Err on an empty keyframe list
try_new_with_start(start, keyframes, interpolation_mode) ==
    IF keyframes = << >>
    THEN [ok |-> FALSE, spline |-> [start |-> start, keyframes |-> << >>]]
    ELSE [ok |-> TRUE, spline |-> [start |-> start, keyframes |-> keyframes]]

(***************************************************************************)
(* enum State<T>.  Every variant is a record of the same shape; the fields *)
(* a variant does not carry are 0.                                         *)
(***************************************************************************)
CheckEntry(index, time) ==
    [tag |-> "CheckEntry", current_frame_index |-> index,
     time_since_start |-> time, at_position |-> 0]

InterpolateSpline(index, time) ==
    [tag |-> "InterpolateSpline", current_frame_index |-> index,
     time_since_start |-> time, at_position |-> 0]

CheckExit(index, time) ==
    [tag |-> "CheckExit", current_frame_index |-> index,
     time_since_start |-> time, at_position |-> 0]

Finished ==
    [tag |-> "Finished", current_frame_index |-> 0,
     time_since_start |-> 0, at_position |-> 0]

Aborted(position) ==
    [tag |-> "Aborted", current_frame_index |-> 0,
     time_since_start |-> 0, at_position |-> position]

\* variant of current_frame_index that answers for every variant
current_frame_index_any(state) ==
    << state.current_frame_index >>

\* State::current_frame_index
current_frame_index(state) ==
    IF state.tag \in {"CheckEntry", "InterpolateSpline", "CheckExit"}
    THEN << state.current_frame_index >>
    ELSE << >>

\* impl Default for State
default_state == CheckEntry(0, 0)

(***************************************************************************)
(* impl MotionInterpolator<T>                                              *)
(***************************************************************************)
\* variant of value that holds the start of the segment while gating its exit
value_exit_start(fr, state) ==
    IF state.tag = "CheckEntry"
    THEN start_position(fr[state.current_frame_index + 1].spline)
    ELSE IF state.tag = "InterpolateSpline"
    THEN value_at(fr[state.current_frame_index + 1].spline, state.time_since_start)
    ELSE IF state.tag = "CheckExit"
    THEN start_position(fr[state.current_frame_index + 1].spline)
    ELSE IF state.tag = "Finished"
    THEN end_position(fr[Len(fr)].spline)
    ELSE state.at_position

\* MotionInterpolator::value
value(fr, state) ==
    IF state.tag = "CheckEntry"
    THEN start_position(fr[state.current_frame_index + 1].spline)
    ELSE IF state.tag = "InterpolateSpline"
    THEN value_at(fr[state.current_frame_index + 1].spline, state.time_since_start)
    ELSE IF state.tag = "CheckExit"
    THEN end_position(fr[state.current_frame_index + 1].spline)
    ELSE IF state.tag = "Finished"
    THEN end_position(fr[Len(fr)].spline)
    ELSE state.at_position

\* variant of the closure that looks for Wait in the accumulator only
combine_accumulated_wait(accumulated, current) ==
    IF accumulated = "Abort" THEN "Abort"
    ELSE IF current = "Abort" THEN "Abort"
    ELSE accumulated

\* the closure handed to reduce in check_continuous_conditions
combine(accumulated, current) ==
    IF accumulated = "Abort" THEN "Abort"
    ELSE IF current = "Abort" THEN "Abort"
    ELSE IF accumulated = "Wait" THEN "Wait"
    ELSE IF current = "Wait" THEN "Wait"
    ELSE accumulated

RECURSIVE fold(_, _)
fold(accumulated, rest) ==
    IF rest = << >> THEN accumulated
    ELSE fold(combine(accumulated, rest[1]), Tail(rest))

\* Iterator::reduce over the verdicts: None for no verdict at all
reduce(responses) ==
    IF responses = << >> THEN << >>
    ELSE << fold(responses[1], Tail(responses)) >>

\* the verdicts of a list of conditions on one input, in list order
evaluate_all(conditions, condition_input) ==
    [k \in 1 .. Len(conditions) |-> evaluate(conditions[k], condition_input)]

\* the interrupts the tick looks at: None without a frame index or without
\* configured interrupts
continuous_conditions(fr, state) ==
    IF current_frame_index(state) = << >> THEN << >>
    ELSE fr[current_frame_index(state)[1] + 1].motion_interrupts

\* variant of check_continuous_conditions on which a Wait verdict does not end
\* the tick
check_continuous_conditions_wait_on(fr, state, condition_input) ==
    IF continuous_conditions(fr, state) # << >>
    THEN LET verdict == reduce(evaluate_all(continuous_conditions(fr, state)[1],
                                            condition_input))
         IN  IF verdict = << "Abort" >>
             THEN [return_state |-> "Return",
                   current_state |-> Aborted(value(fr, state))]
             ELSE [return_state |-> "Continue", current_state |-> state]
    ELSE [return_state |-> "Continue", current_state |-> state]

\* variant of check_continuous_conditions that records the start of the
\* segment instead of value() on an Abort
check_continuous_conditions_start(fr, state, condition_input) ==
    IF continuous_conditions(fr, state) # << >>
    THEN LET verdict == reduce(evaluate_all(continuous_conditions(fr, state)[1],
                                            condition_input))
         IN  IF verdict = << "Abort" >>
             THEN [return_state |-> "Return",
                   current_state |->
                       Aborted(start_position(fr[state.current_frame_index + 1].spline))]
             ELSE IF verdict = << "Wait" >>
             THEN [return_state |-> "Return", current_state |-> state]
             ELSE [return_state |-> "Continue", current_state |-> state]
    ELSE [return_state |-> "Continue", current_state |-> state]

\* MotionInterpolator::check_continuous_conditions: the ReturnState and the
\* current_state it leaves
check_continuous_conditions(fr, state, condition_input) ==
    IF continuous_conditions(fr, state) # << >>
    THEN LET verdict == reduce(evaluate_all(continuous_conditions(fr, state)[1],
                                            condition_input))
         IN  IF verdict = << "Abort" >>
             THEN [return_state |-> "Return",
                   current_state |-> Aborted(value(fr, state))]
             ELSE IF verdict = << "Wait" >>
             THEN [return_state |-> "Return", current_state |-> state]
             ELSE [return_state |-> "Continue", current_state |-> state]
    ELSE [return_state |-> "Continue", current_state |-> state]

\* an optional gating condition evaluated and wrapped in its timeout
gating_response(condition, condition_input, time_since_start) ==
    IF condition = << >> THEN << >>
    ELSE << with_timeout(evaluate(condition[1], condition_input),
                         timeout(condition[1], time_since_start)) >>

\* variant of the CheckEntry arm that asks for the timeout at the elapsed time
\* the tick is about to store
advance_check_entry_late(fr, state, time_step, condition_input) ==
    LET current_frame == fr[state.current_frame_index + 1]
        response == gating_response(current_frame.entry_condition, condition_input,
                                    state.time_since_start + time_step)
    IN  IF response = << "Abort" >> THEN Aborted(value(fr, state))
        ELSE IF response = << "Wait" >>
        THEN CheckEntry(state.current_frame_index,
                        state.time_since_start + time_step)
        ELSE InterpolateSpline(state.current_frame_index, 0)

\* advance_state, State::CheckEntry arm
advance_check_entry(fr, state, time_step, condition_input) ==
    LET current_frame == fr[state.current_frame_index + 1]
        response == gating_response(current_frame.entry_condition,
                                    condition_input, state.time_since_start)
    IN  IF response = << "Abort" >> THEN Aborted(value(fr, state))
        ELSE IF response = << "Wait" >>
        THEN CheckEntry(state.current_frame_index,
                        state.time_since_start + time_step)
        ELSE InterpolateSpline(state.current_frame_index, 0)

\* variant of the InterpolateSpline arm that leaves the spline only once the
\* elapsed time is strictly beyond its duration
advance_interpolate_spline_strict(fr, state, time_step) ==
    LET current_frame == fr[state.current_frame_index + 1]
    IN  IF state.time_since_start > total_duration(current_frame.spline)
        THEN CheckExit(state.current_frame_index, 0)
        ELSE InterpolateSpline(state.current_frame_index,
                               state.time_since_start + time_step)

\* advance_state, State::InterpolateSpline arm
advance_interpolate_spline(fr, state, time_step) ==
    LET current_frame == fr[state.current_frame_index + 1]
    IN  IF state.time_since_start >= total_duration(current_frame.spline)
        THEN CheckExit(state.current_frame_index, 0)
        ELSE InterpolateSpline(state.current_frame_index,
                               state.time_since_start + time_step)

\* variant of the CheckExit arm that records the start of the segment when
\* its exit condition aborts
advance_check_exit_abort_start(fr, state, time_step, condition_input) ==
    LET current_frame == fr[state.current_frame_index + 1]
        response == gating_response(current_frame.exit_condition,
                                    condition_input, state.time_since_start)
    IN  IF response = << "Abort" >>
        THEN Aborted(start_position(current_frame.spline))
        ELSE IF response = << "Wait" >>
        THEN CheckExit(state.current_frame_index,
                       state.time_since_start + time_step)
        ELSE IF state.current_frame_index < Len(fr) - 1
        THEN CheckEntry(state.current_frame_index + 1, 0)
        ELSE Finished

\* variant of the CheckExit arm that does not count the time it waits
advance_check_exit_no_time(fr, state, time_step, condition_input) ==
    LET current_frame == fr[state.current_frame_index + 1]
        response == gating_response(current_frame.exit_condition,
                                    condition_input, state.time_since_start)
    IN  IF response = << "Abort" >> THEN Aborted(value(fr, state))
        ELSE IF response = << "Wait" >>
        THEN CheckExit(state.current_frame_index, state.time_since_start)
        ELSE IF state.current_frame_index < Len(fr) - 1
        THEN CheckEntry(state.current_frame_index + 1, 0)
        ELSE Finished

\* variant of the CheckExit arm whose last-frame test is off by one: it
\* finishes one frame early
advance_check_exit_early(fr, state, time_step, condition_input) ==
    LET current_frame == fr[state.current_frame_index + 1]
        response == gating_response(current_frame.exit_condition,
                                    condition_input, state.time_since_start)
    IN  IF response = << "Abort" >> THEN Aborted(value(fr, state))
        ELSE IF response = << "Wait" >>
        THEN CheckExit(state.current_frame_index,
                       state.time_since_start + time_step)
        ELSE IF state.current_frame_index + 1 < Len(fr) - 1
        THEN CheckEntry(state.current_frame_index + 1, 0)
        ELSE Finished

\* advance_state, State::CheckExit arm
advance_check_exit(fr, state, time_step, condition_input) ==
    LET current_frame == fr[state.current_frame_index + 1]
        response == gating_response(current_frame.exit_condition,
                                    condition_input, state.time_since_start)
    IN  IF response = << "Abort" >> THEN Aborted(value(fr, state))
        ELSE IF response = << "Wait" >>
        THEN CheckExit(state.current_frame_index,
                       state.time_since_start + time_step)
        ELSE IF state.current_frame_index < Len(fr) - 1
        THEN CheckEntry(state.current_frame_index + 1, 0)
        ELSE Finished

\* MotionInterpolator::advance_state
advance_state(fr, state, time_step, condition_input) ==
    IF state.tag = "CheckEntry"
    THEN advance_check_entry(fr, state, time_step, condition_input)
    ELSE IF state.tag = "InterpolateSpline"
    THEN advance_interpolate_spline(fr, state, time_step)
    ELSE IF state.tag = "CheckExit"
    THEN advance_check_exit(fr, state, time_step, condition_input)
    ELSE state

\* MotionInterpolator::advance_by: the current_state after the call
advance_by(fr, state, time_step, condition_input) ==
    LET checked == check_continuous_conditions(fr, state, condition_input)
    IN  IF checked.return_state = "Return" THEN checked.current_state
        ELSE advance_state(fr, checked.current_state, time_step, condition_input)

\* variant of is_finished that does not count an aborted motion
is_finished_success(state) ==
    state.tag = "Finished"

\* MotionInterpolator::is_finished
is_finished(state) ==
    state.tag = "Finished" \/ state.tag = "Aborted"

\* variant of reset that leaves a terminal state alone
reset_running(state) ==
    IF state.tag = "Finished" \/ state.tag = "Aborted" THEN state
    ELSE CheckEntry(0, 0)

\* MotionInterpolator::reset: the current_state after the call
reset(state) == CheckEntry(0, 0)

\* variant of set_initial_positions that rebases every frame
set_initial_positions_all(fr, position) ==
    [k \in 1 .. Len(fr) |->
        [fr[k] EXCEPT !.spline = spline_set_initial_positions(@, position)]]

\* MotionInterpolator::set_initial_positions: the frames after the call
set_initial_positions(fr, position) ==
    IF fr # << >>
    THEN [fr EXCEPT ![1].spline = spline_set_initial_positions(@, position)]
    ELSE fr

\* self.frames[current_frame_index] panics: the state carries a frame index
\* that is no index of frames
index_out_of_bounds(fr, state) ==
    /\ current_frame_index(state) # << >>
    /\ current_frame_index(state)[1] >= Len(fr)

\* value() panics: it indexes frames out of bounds, or unwraps the last of no
\* frames
value_panics(fr, state) ==
    \/ index_out_of_bounds(fr, state)
    \/ state.tag = "Finished" /\ fr = << >>

(***************************************************************************)
(* Construction: TryFrom<MotionFile<T>> and the derived Default.           *)
(* A motion file is [initial_positions, interpolation_mode, motion]; a     *)
(* group of motion is [entry_condition, motion_interrupts, keyframes,      *)
(* exit_condition].                                                        *)
(***************************************************************************)
\* variant of the window closure that carries the conditions of the first
\* group of the pair
window_frame_first_conditions(first_frame, second_frame, interpolation_mode) ==
    IF first_frame.keyframes = << >>
    THEN [outcome |-> "Panic", frames |-> << >>]
    ELSE LET built == try_new_with_start(
                          first_frame.keyframes[Len(first_frame.keyframes)].positions,
                          second_frame.keyframes, interpolation_mode)
         IN  IF built.ok
             THEN [outcome |-> "Ok",
                   frames |-> << [entry_condition |-> first_frame.entry_condition,
                                  motion_interrupts |-> first_frame.motion_interrupts,
                                  spline |-> built.spline,
                                  exit_condition |-> first_frame.exit_condition] >>]
             ELSE [outcome |-> "Err", frames |-> << >>]

\* variant of the window closure that starts the segment at the first keyframe
\* of the previous group
window_frame_first_keyframe(first_frame, second_frame, interpolation_mode) ==
    IF first_frame.keyframes = << >>
    THEN [outcome |-> "Panic", frames |-> << >>]
    ELSE LET built == try_new_with_start(first_frame.keyframes[1].positions,
                                         second_frame.keyframes, interpolation_mode)
         IN  IF built.ok
             THEN [outcome |-> "Ok",
                   frames |-> << [entry_condition |-> second_frame.entry_condition,
                                  motion_interrupts |-> second_frame.motion_interrupts,
                                  spline |-> built.spline,
                                  exit_condition |-> second_frame.exit_condition] >>]
             ELSE [outcome |-> "Err", frames |-> << >>]

\* one element of the tuple_windows().map(...) iterator: the frame built from
\* two neighbouring groups
window_frame(first_frame, second_frame, interpolation_mode) ==
    IF first_frame.keyframes = << >>
    THEN [outcome |-> "Panic", frames |-> << >>]   \* keyframes.last().unwrap()
    ELSE LET built == try_new_with_start(
                          first_frame.keyframes[Len(first_frame.keyframes)].positions,
                          second_frame.keyframes, interpolation_mode)
         IN  IF built.ok
             THEN [outcome |-> "Ok",
                   frames |-> << [entry_condition |-> second_frame.entry_condition,
                                  motion_interrupts |-> second_frame.motion_interrupts,
                                  spline |-> built.spline,
                                  exit_condition |-> second_frame.exit_condition] >>]
             ELSE [outcome |-> "Err", frames |-> << >>]

\* collect::<Result<Vec<_>, _>>() over the windows from group k on: stops at
\* the first window that is no Ok
RECURSIVE collect_windows(_, _, _)
collect_windows(motion, k, interpolation_mode) ==
    IF k >= Len(motion) THEN [outcome |-> "Ok", frames |-> << >>]
    ELSE LET head == window_frame(motion[k], motion[k + 1], interpolation_mode)
         IN  IF head.outcome # "Ok" THEN head
             ELSE LET rest == collect_windows(motion, k + 1, interpolation_mode)
                  IN  IF rest.outcome # "Ok" THEN rest
                      ELSE [outcome |-> "Ok", frames |-> head.frames \o rest.frames]

\* try_from: Ok with the interpolator, Err, or a panic
try_from(motion_file) ==
    IF motion_file.motion = << >>
    THEN [outcome |-> "Panic", frames |-> << >>, current_state |-> default_state]
    ELSE LET first_frame == motion_file.motion[1]
             first_spline == try_new_with_start(motion_file.initial_positions,
                                                first_frame.keyframes,
                                                motion_file.interpolation_mode)
             others == collect_windows(motion_file.motion, 1,
                                       motion_file.interpolation_mode)
         IN  IF ~first_spline.ok
             THEN [outcome |-> "Err", frames |-> << >>, current_state |-> default_state]
             ELSE IF others.outcome # "Ok"
             THEN [outcome |-> others.outcome, frames |-> << >>,
                   current_state |-> default_state]
             ELSE [outcome |-> "Ok",
                   frames |-> << [entry_condition |-> first_frame.entry_condition,
                                  motion_interrupts |-> first_frame.motion_interrupts,
                                  spline |-> first_spline.spline,
                                  exit_condition |-> first_frame.exit_condition] >>
                              \o others.frames,
                   current_state |-> CheckEntry(0, 0)]

\* #[derive(Default)] for MotionInterpolator: no frames, State::default()
default_interpolator ==
    [frames |-> << >>, current_state |-> default_state]

(***************************************************************************)
(* The motion files explored.                                              *)
(***************************************************************************)
Group(entry_condition, motion_interrupts, keyframes, exit_condition) ==
    [entry_condition |-> entry_condition, motion_interrupts |-> motion_interrupts,
     keyframes |-> keyframes, exit_condition |-> exit_condition]

Keyframe(duration, positions) == [duration |-> duration, positions |-> positions]

\* one keyframe, 1 s to position 10.0, nothing configured
PlainGroup == Group(<< >>, << >>, << Keyframe(4, 20) >>, << >>)

\* entry condition always Wait, timing out after 2 s
TimeoutGroup ==
    Group(<< AlwaysWait(<< 8 >>) >>, << >>, << Keyframe(4, 20) >>, << >>)

\* gated on sensor a at both ends, interrupted by sensor b
GuardedGroup ==
    Group(<< Follow("a", << 4 >>) >>,
          << << Follow("b", << >>) >> >>,
          << Keyframe(1, 8), Keyframe(1, 4) >>,
          << Follow("a", << 1 >>) >>)

\* three interrupts, no gating
InterruptedGroup ==
    Group(<< >>,
          << << Follow("a", << >>), Follow("b", << >>), Follow("a", << >>) >> >>,
          << Keyframe(2, 12) >>, << >>)

\* an interrupt list that is configured and empty; exit gated without timeout
EmptyInterruptsGroup ==
    Group(<< >>, << << >> >>, << Keyframe(1, 6) >>, << Follow("b", << >>) >>)

\* a short group with nothing configured
ShortGroup == Group(<< >>, << >>, << Keyframe(1, 8) >>, << >>)

\* a group without keyframes: its spline fails to build
EmptyGroup == Group(<< >>, << >>, << >>, << >>)

SingleGroups ==
    {PlainGroup, TimeoutGroup, GuardedGroup, InterruptedGroup,
     EmptyInterruptsGroup, ShortGroup, EmptyGroup}

ChainGroups == {ShortGroup, GuardedGroup, EmptyGroup}

Motions ==
    {<< >>} \cup {<< g >> : g \in SingleGroups}
    \cup UNION {[1 .. n -> ChainGroups] : n \in 2 .. MaxFrames}

MotionFiles ==
    {[initial_positions |-> 0, interpolation_mode |-> "Linear", motion |-> m] :
        m \in Motions}

(***************************************************************************)
(* The state machine.                                                      *)
(***************************************************************************)
NoInput == [s \in Sensors |-> 1]

Call(op, time_step, condition_input, position) ==
    [op |-> op, time_step |-> time_step, condition_input |-> condition_input,
     position |-> position]

\* the phase as the sequencing sees it: variant and frame index
Phase(state) == << state.tag, state.current_frame_index >>

\* the motion file recorded for an interpolator that try_from did not build
NoMotionFile ==
    [initial_positions |-> 0, interpolation_mode |-> "Linear", motion |-> << >>]

Constructed(interpolator, op) ==
    /\ frames = interpolator.frames
    /\ current_state = interpolator.current_state
    /\ panicked = FALSE
    /\ last_op = Call(op, 0, NoInput, 0)
    /\ prev_state = interpolator.current_state
    /\ ticks = 0
    /\ steps = {}
    /\ visited = << Phase(interpolator.current_state) >>

Init ==
    \/ \E motion_file \in MotionFiles :
          /\ try_from(motion_file).outcome = "Ok"
          /\ Constructed(try_from(motion_file), "try_from")
          /\ construction = [motion_file |-> motion_file, outcome |-> "Ok"]
    \/ /\ Constructed(default_interpolator, "default")
       /\ construction = [motion_file |-> NoMotionFile, outcome |-> "Default"]

AdvanceBy(time_step, condition_input) ==
    /\ ~panicked
    /\ ticks < MaxTicks
    /\ IF index_out_of_bounds(frames, current_state)
       THEN /\ panicked' = TRUE
            /\ UNCHANGED current_state
       ELSE /\ current_state' =
                   advance_by(frames, current_state, time_step, condition_input)
            /\ UNCHANGED panicked
    /\ last_op' = Call("advance_by", time_step, condition_input, 0)
    /\ prev_state' = current_state
    /\ ticks' = ticks + 1
    /\ steps' = steps \cup {time_step}
    /\ visited' = IF Phase(current_state') = visited[Len(visited)]
                  THEN visited
                  ELSE Append(visited, Phase(current_state'))
    /\ UNCHANGED <<frames, construction>>

Reset ==
    /\ ~panicked
    /\ current_state' = reset(current_state)
    /\ last_op' = Call("reset", 0, NoInput, 0)
    /\ prev_state' = current_state
    /\ ticks' = 0
    /\ steps' = {}
    /\ visited' = << Phase(current_state') >>
    /\ UNCHANGED <<frames, panicked, construction>>

SetInitialPositions(position) ==
    /\ ~panicked
    /\ frames' = set_initial_positions(frames, position)
    /\ last_op' = Call("set_initial_positions", 0, NoInput, position)
    /\ prev_state' = current_state
    /\ UNCHANGED <<current_state, panicked, ticks, steps, visited, construction>>

\* a call of value(): it takes &self, so it returns a position (recorded in
\* last_op) or panics, and assigns nothing
Value ==
    /\ ~panicked
    /\ IF value_panics(frames, current_state)
       THEN /\ panicked' = TRUE
            /\ last_op' = Call("value", 0, NoInput, 0)
       ELSE /\ last_op' = Call("value", 0, NoInput, value(frames, current_state))
            /\ UNCHANGED panicked
    /\ prev_state' = current_state
    /\ UNCHANGED <<frames, current_state, ticks, steps, visited, construction>>

Next ==
    \/ \E time_step \in TimeSteps, condition_input \in ConditionInput :
          AdvanceBy(time_step, condition_input)
    \/ Reset
    \/ \E position \in RebasePositions : SetInitialPositions(position)
    \/ Value

Spec == Init /\ [][Next]_vars

(***************************************************************************)
(* Construction as a step: a motion file is handed to try_from, and the    *)
(* interpolator it returns may be rebased and queried before its first     *)
(* tick.                                                                   *)
(***************************************************************************)
InitialPositions == {0, 6}

BuildMotionFiles ==
    {[motion_file EXCEPT !.initial_positions = position] :
        motion_file \in MotionFiles, position \in InitialPositions}

InitBuild ==
    /\ \E motion_file \in BuildMotionFiles :
          construction = [motion_file |-> motion_file, outcome |-> "Pending"]
    /\ frames = << >>
    /\ current_state = default_state
    /\ panicked = FALSE
    /\ last_op = Call("none", 0, NoInput, 0)
    /\ prev_state = default_state
    /\ ticks = 0
    /\ steps = {}
    /\ visited = << Phase(default_state) >>

\* the call of try_from: Ok(interpolator), Err(report) or a panic
TryFrom ==
    /\ construction.outcome = "Pending"
    /\ LET result == try_from(construction.motion_file)
       IN  /\ construction' = [construction EXCEPT !.outcome = result.outcome]
           /\ IF result.outcome = "Ok"
              THEN /\ frames' = result.frames
                   /\ current_state' = result.current_state
              ELSE UNCHANGED <<frames, current_state>>
           /\ panicked' = (result.outcome = "Panic")
    /\ last_op' = Call("try_from", 0, NoInput, 0)
    /\ prev_state' = current_state'
    /\ UNCHANGED <<ticks, steps, visited>>

NextBuild ==
    \/ TryFrom
    \/ /\ construction.outcome = "Ok"
       /\ \E position \in RebasePositions : SetInitialPositions(position)
    \/ /\ construction.outcome = "Ok"
       /\ Value

SpecBuild == InitBuild /\ [][NextBuild]_vars

(***************************************************************************)
(* Properties.                                                             *)
(***************************************************************************)
\* the last call was a tick that ran (it did not panic)
Ticked == last_op.op = "advance_by" /\ ~panicked

\* the interpolator built from one group with no conditions: 1 s from 0.0 to 10.0
ScenarioFrames ==
    try_from([initial_positions |-> 0, interpolation_mode |-> "Linear",
              motion |-> << PlainGroup >>]).frames

\* C1: the single-segment scenario (1 s, 0.0 to 10.0, linear, no conditions,
\* 0.25 s ticks) as the spec states it: Interpolating{0, 0.25} with value 2.5
\* after 1 tick, CheckExit{0, 0} with value 10.0 after 4 ticks, Finished with
\* value 10.0 after 5 ticks.
C1_ScenarioAsStated ==
    (frames = ScenarioFrames /\ steps \subseteq {1}) =>
        /\ ticks = 1 => /\ current_state = InterpolateSpline(0, 1)
                        /\ value(frames, current_state) = 5
        /\ ticks = 4 => /\ current_state = CheckExit(0, 0)
                        /\ value(frames, current_state) = 20
        /\ ticks = 5 => /\ current_state = Finished
                        /\ value(frames, current_state) = 20

\* C1 (amended): in that scenario the first tick only enters the spline and the
\* tick after the full duration only leaves it: Interpolating{0, 0} with value
\* 0.0 after 1 tick, Interpolating{0, 0.25} with value 2.5 after 2 ticks,
\* Interpolating{0, 1.0} with value 10.0 after 5 ticks, CheckExit{0, 0} with
\* value 10.0 after 6 ticks, Finished with value 10.0 after 7 ticks.
C1_Scenario ==
    (frames = ScenarioFrames /\ steps \subseteq {1}) =>
        /\ ticks = 1 => /\ current_state = InterpolateSpline(0, 0)
                        /\ value(frames, current_state) = 0
        /\ ticks = 2 => /\ current_state = InterpolateSpline(0, 1)
                        /\ value(frames, current_state) = 5
        /\ ticks = 5 => /\ current_state = InterpolateSpline(0, 4)
                        /\ value(frames, current_state) = 20
        /\ ticks = 6 => /\ current_state = CheckExit(0, 0)
                        /\ value(frames, current_state) = 20
        /\ ticks = 7 => /\ current_state = Finished
                        /\ value(frames, current_state) = 20

C1_Witness ==
    /\ frames = ScenarioFrames
    /\ steps = {1}
    /\ ticks = 7
    /\ current_state = Finished

\* no entry condition, no exit condition and no interrupts on any frame
NoConditions(fr) ==
    \A k \in 1 .. Len(fr) :
        /\ fr[k].entry_condition = << >>
        /\ fr[k].exit_condition = << >>
        /\ fr[k].motion_interrupts = << >>

\* CheckEntry{k}, Interpolating{k}, CheckExit{k} for k = 0 .. n - 1, then Finished
ExpectedPhases(n) ==
    [j \in 1 .. 3 * n + 1 |->
        IF j = 3 * n + 1 THEN Phase(Finished)
        ELSE IF j % 3 = 1 THEN << "CheckEntry", (j - 1) \div 3 >>
        ELSE IF j % 3 = 2 THEN << "InterpolateSpline", (j - 1) \div 3 >>
        ELSE << "CheckExit", (j - 1) \div 3 >>]

IsPrefix(short, long) ==
    /\ Len(short) <= Len(long)
    /\ \A j \in 1 .. Len(short) : short[j] = long[j]

\* C2: with N >= 1 frames and nothing configured, the phases visited by ticks
\* from the initial phase are CheckEntry{0}, Interpolating{0}, CheckExit{0},
\* CheckEntry{1}, ..., CheckExit{N-1}, Finished in this order, none skipped or
\* revisited; Aborted is never reached and Finished only after all of them.
C2_Sequencing ==
    (Len(frames) >= 1 /\ NoConditions(frames)) =>
        /\ IsPrefix(visited, ExpectedPhases(Len(frames)))
        /\ visited[Len(visited)] = Phase(current_state)
        /\ current_state.tag # "Aborted"
        /\ current_state.tag = "Finished" => visited = ExpectedPhases(Len(frames))

C2_Witness ==
    /\ Len(frames) = 2
    /\ NoConditions(frames)
    /\ current_state = Finished
    /\ Len(visited) = 7

\* some interrupt of the segment the state is in evaluates to the verdict
AnyInterrupt(fr, state, condition_input, verdict) ==
    /\ current_frame_index(state) # << >>
    /\ ~index_out_of_bounds(fr, state)
    /\ continuous_conditions(fr, state) # << >>
    /\ \E k \in 1 .. Len(continuous_conditions(fr, state)[1]) :
          evaluate(continuous_conditions(fr, state)[1][k], condition_input) = verdict

\* C3: a tick on which any interrupt of the current segment evaluates to Abort
\* ends in Aborted with the position value() returned before the tick, and a
\* tick in Aborted leaves the phase as it is.
C3_InterruptAbort ==
    /\ (Ticked /\ AnyInterrupt(frames, prev_state, last_op.condition_input, "Abort"))
          => current_state = Aborted(value(frames, prev_state))
    /\ (Ticked /\ prev_state.tag = "Aborted") => current_state = prev_state

\* an interrupt aborts mid-spline while another interrupt says Wait
C3_Witness ==
    /\ Ticked
    /\ prev_state.tag = "InterpolateSpline"
    /\ AnyInterrupt(frames, prev_state, last_op.condition_input, "Abort")
    /\ AnyInterrupt(frames, prev_state, last_op.condition_input, "Wait")
    /\ current_state.tag = "Aborted"
    /\ current_state.at_position # start_position(frames[prev_state.current_frame_index + 1].spline)

\* C4 (as stated): a tick on which an interrupt of the current segment
\* evaluates to Wait leaves the phase exactly as it was.
C4_AnyInterruptWait ==
    (Ticked /\ AnyInterrupt(frames, prev_state, last_op.condition_input, "Wait"))
        => current_state = prev_state

\* C4 (amended): a tick on which an interrupt of the current segment evaluates
\* to Wait and none evaluates to Abort leaves the phase exactly as it was
\* (variant, frame index and elapsed), whatever the gating condition says.
C4_InterruptWait ==
    (/\ Ticked
     /\ AnyInterrupt(frames, prev_state, last_op.condition_input, "Wait")
     /\ ~AnyInterrupt(frames, prev_state, last_op.condition_input, "Abort"))
        => current_state = prev_state

\* the gating condition of the phase: entry in CheckEntry, exit in CheckExit
GatingCondition(fr, state) ==
    IF state.tag = "CheckEntry"
    THEN fr[state.current_frame_index + 1].entry_condition
    ELSE fr[state.current_frame_index + 1].exit_condition

\* the state waits at a gate whose condition answers Wait on the input
GateSaysWait(fr, state, condition_input) ==
    /\ state.tag \in {"CheckEntry", "CheckExit"}
    /\ ~index_out_of_bounds(fr, state)
    /\ GatingCondition(fr, state) # << >>
    /\ evaluate(GatingCondition(fr, state)[1], condition_input) = "Wait"

\* an interrupt stalls a gate whose condition says Wait and has timed out
C4_Witness ==
    /\ Ticked
    /\ AnyInterrupt(frames, prev_state, last_op.condition_input, "Wait")
    /\ GateSaysWait(frames, prev_state, last_op.condition_input)
    /\ timeout(GatingCondition(frames, prev_state)[1], prev_state.time_since_start)
    /\ prev_state.time_since_start > 0
    /\ current_state = prev_state

NoInterruptFires(fr, state, condition_input) ==
    /\ ~AnyInterrupt(fr, state, condition_input, "Abort")
    /\ ~AnyInterrupt(fr, state, condition_input, "Wait")

\* C5 (as stated): a tick in CheckEntry{i, e} or CheckExit{i, e} whose gating
\* condition evaluates to Wait while no interrupt fires ends in the same
\* variant with the same i and elapsed e + dt.
C5_GateWaitAsStated ==
    (/\ Ticked
     /\ GateSaysWait(frames, prev_state, last_op.condition_input)
     /\ NoInterruptFires(frames, prev_state, last_op.condition_input))
        => current_state =
               [prev_state EXCEPT !.time_since_start = @ + last_op.time_step]

\* C5 (amended): a tick in CheckEntry{i, e} or CheckExit{i, e} whose gating
\* condition evaluates to Wait and has not timed out at e, while no interrupt
\* fires, ends in the same variant with the same i and elapsed e + dt.
C5_GateWait ==
    (/\ Ticked
     /\ GateSaysWait(frames, prev_state, last_op.condition_input)
     /\ ~timeout(GatingCondition(frames, prev_state)[1], prev_state.time_since_start)
     /\ NoInterruptFires(frames, prev_state, last_op.condition_input))
        => current_state =
               [prev_state EXCEPT !.time_since_start = @ + last_op.time_step]

C5_Witness ==
    /\ Ticked
    /\ prev_state.tag = "CheckExit"
    /\ prev_state.time_since_start > 0
    /\ GateSaysWait(frames, prev_state, last_op.condition_input)
    /\ current_state = CheckExit(prev_state.current_frame_index,
                                 prev_state.time_since_start + last_op.time_step)

\* one segment whose entry condition says Wait on every input and times out
\* after 2 s, without interrupts
TimeoutScenario(fr) ==
    /\ Len(fr) = 1
    /\ fr[1].entry_condition # << >>
    /\ \A condition_input \in ConditionInput :
          evaluate(fr[1].entry_condition[1], condition_input) = "Wait"
    /\ fr[1].entry_condition[1].timeout_duration = << 8 >>
    /\ fr[1].motion_interrupts = << >>

\* C6: in the timeout scenario driven by 1 s ticks the phase is
\* CheckEntry{0, 1.0} after tick 1, CheckEntry{0, 2.0} after tick 2 (the timeout
\* sees the elapsed time before the step is added) and Aborted at the start
\* position of the segment after tick 3.
C6_EntryTimeout ==
    (TimeoutScenario(frames) /\ steps \subseteq {4}) =>
        /\ ticks = 1 => current_state = CheckEntry(0, 4)
        /\ ticks = 2 => current_state = CheckEntry(0, 8)
        /\ ticks = 3 => current_state.tag = "Aborted"
        /\ (ticks = 3 /\ last_op.op = "advance_by") =>
               current_state = Aborted(start_position(frames[1].spline))

C6_Witness ==
    /\ TimeoutScenario(frames)
    /\ steps = {4}
    /\ ticks = 3
    /\ last_op.op = "advance_by"
    /\ prev_state = CheckEntry(0, 8)
    /\ current_state.tag = "Aborted"

\* C7: in CheckEntry, InterpolateSpline and CheckExit the frame index is an
\* index of frames.
C7_FrameIndexInBounds ==
    current_state.tag \in {"CheckEntry", "InterpolateSpline", "CheckExit"}
        => current_state.current_frame_index < Len(frames)

\* C8: reset puts the state at CheckEntry{0, 0}, the state of a freshly
\* constructed interpolator, from every state, and leaves frames as they are.
C8_Reset ==
    [][last_op'.op = "reset" =>
          /\ current_state' = CheckEntry(0, 0)
          /\ current_state' = try_from([initial_positions |-> 0,
                                        interpolation_mode |-> "Linear",
                                        motion |-> << PlainGroup >>]).current_state
          /\ frames' = frames]_vars

C8_Witness ==
    /\ last_op.op = "reset"
    /\ prev_state.tag = "Aborted"
    /\ current_state = CheckEntry(0, 0)
    /\ Len(frames) = 2

\* the verdict check_continuous_conditions acts on for a frame's interrupts
CombinedVerdict(motion_interrupts, condition_input) ==
    IF motion_interrupts = << >> THEN "Continue"
    ELSE LET verdict == reduce(evaluate_all(motion_interrupts[1], condition_input))
         IN  IF verdict = << >> THEN "Continue" ELSE verdict[1]

\* Abort > Wait > Continue over a set of verdicts
Precedence(verdicts) ==
    IF "Abort" \in verdicts THEN "Abort"
    ELSE IF "Wait" \in verdicts THEN "Wait"
    ELSE "Continue"

Orders(n) ==
    {p \in [1 .. n -> 1 .. n] : \A i, j \in 1 .. n : i # j => p[i] # p[j]}

Range(sequence) == {sequence[k] : k \in 1 .. Len(sequence)}

\* C9: the combined interrupt verdict of a frame on an input is Abort if some
\* interrupt says Abort, else Wait if some says Wait, else Continue; it is the
\* same for every order of the interrupts, Continue without interrupts, and it
\* is the verdict the tick acts on.
C9_CombinedVerdict ==
    /\ \A k \in 1 .. Len(frames), condition_input \in ConditionInput :
          LET interrupts == frames[k].motion_interrupts
              list == IF interrupts = << >> THEN << >> ELSE interrupts[1]
          IN  /\ CombinedVerdict(interrupts, condition_input) =
                     Precedence(Range(evaluate_all(list, condition_input)))
              /\ \A p \in Orders(Len(list)) :
                     CombinedVerdict(<< [j \in 1 .. Len(list) |-> list[p[j]]] >>,
                                     condition_input)
                         = CombinedVerdict(interrupts, condition_input)
    /\ (Ticked /\ current_frame_index(prev_state) # << >>) =>
          LET verdict ==
                  CombinedVerdict(continuous_conditions(frames, prev_state),
                                  last_op.condition_input)
          IN  /\ verdict = "Abort" => current_state.tag = "Aborted"
              /\ verdict = "Wait" => current_state = prev_state
              /\ verdict = "Continue" =>
                     current_state = advance_state(frames, prev_state,
                                                   last_op.time_step,
                                                   last_op.condition_input)

\* three interrupts answer Continue, Wait, Continue and the tick stalls
C9_Witness ==
    /\ Ticked
    /\ prev_state.tag = "InterpolateSpline"
    /\ continuous_conditions(frames, prev_state) # << >>
    /\ evaluate_all(continuous_conditions(frames, prev_state)[1],
                    last_op.condition_input) = << "Continue", "Wait", "Continue" >>
    /\ current_state = prev_state

\* C10: is_finished is true exactly in Finished and Aborted: false in
\* CheckEntry, InterpolateSpline and CheckExit, and true for an aborted motion
\* as for a finished one.
C10_IsFinished ==
    /\ current_state.tag \in {"CheckEntry", "InterpolateSpline", "CheckExit"}
          => ~is_finished(current_state)
    /\ current_state.tag \in {"Finished", "Aborted"} => is_finished(current_state)
    /\ is_finished(current_state) = is_finished(Finished)
          \/ current_state.tag \notin {"Finished", "Aborted"}

C10_Witness ==
    /\ Ticked
    /\ current_state.tag = "Aborted"
    /\ is_finished(current_state)

\* the position the phase stands for: the start of the segment in CheckEntry,
\* the segment at elapsed in InterpolateSpline, the end of the segment in
\* CheckExit, the end of the last segment in Finished, the record in Aborted
PhasePosition(fr, state) ==
    CASE state.tag = "CheckEntry" ->
             fr[state.current_frame_index + 1].spline.start
      [] state.tag = "InterpolateSpline" ->
             value_at(fr[state.current_frame_index + 1].spline,
                      state.time_since_start)
      [] state.tag = "CheckExit" ->
             LET keyframes == fr[state.current_frame_index + 1].spline.keyframes
             IN  keyframes[Len(keyframes)].positions
      [] state.tag = "Finished" ->
             LET keyframes == fr[Len(fr)].spline.keyframes
             IN  keyframes[Len(keyframes)].positions
      [] state.tag = "Aborted" -> state.at_position

\* C11: a call of value() changes neither the state nor the frames; the
\* position it returns is the one the phase stands for, and a call right
\* after another call returns the same position.
C11_ValuePure ==
    [][last_op'.op = "value" =>
          /\ frames' = frames
          /\ current_state' = current_state
          /\ ~panicked' =>
                /\ last_op'.position = PhasePosition(frames, current_state)
                /\ last_op.op = "value" => last_op'.position = last_op.position]_vars

\* value() answers mid-spline, strictly between the ends of the segment
C11_Witness ==
    /\ last_op.op = "value"
    /\ ~panicked
    /\ current_state.tag = "InterpolateSpline"
    /\ current_state.time_since_start > 0
    /\ last_op.position # start_position(frames[current_state.current_frame_index + 1].spline)
    /\ last_op.position # end_position(frames[current_state.current_frame_index + 1].spline)

\* C12: try_from of groups g_0 .. g_{n-1} returns n frames in group order;
\* frame 0 starts at the initial position, frame k >= 1 at the last keyframe of
\* group k - 1, which is the end of frame k - 1; frame k carries the keyframes
\* and the conditions of group k; the state is CheckEntry{0, 0}.
C12_Construction ==
    (last_op.op = "try_from" /\ construction.outcome = "Ok") =>
        LET motion == construction.motion_file.motion
        IN  /\ Len(frames) = Len(motion)
            /\ frames[1].spline.start = construction.motion_file.initial_positions
            /\ \A k \in 2 .. Len(frames) :
                  /\ frames[k].spline.start =
                         motion[k - 1].keyframes[Len(motion[k - 1].keyframes)].positions
                  /\ frames[k].spline.start = end_position(frames[k - 1].spline)
            /\ \A k \in 1 .. Len(frames) :
                  /\ frames[k].spline.keyframes = motion[k].keyframes
                  /\ frames[k].entry_condition = motion[k].entry_condition
                  /\ frames[k].motion_interrupts = motion[k].motion_interrupts
                  /\ frames[k].exit_condition = motion[k].exit_condition
            /\ current_state = CheckEntry(0, 0)

\* two groups with different conditions, the first with two keyframes, built
\* from an initial position other than 0
C12_Witness ==
    /\ last_op.op = "try_from"
    /\ construction.outcome = "Ok"
    /\ construction.motion_file.initial_positions = 6
    /\ Len(frames) = 2
    /\ Len(frames[1].spline.keyframes) = 2
    /\ frames[1].entry_condition # frames[2].entry_condition
    /\ frames[2].spline.start = 4

\* the motion file has no group, or a group without keyframes
FailsToBuild(motion_file) ==
    \/ motion_file.motion = << >>
    \/ \E k \in 1 .. Len(motion_file.motion) : motion_file.motion[k].keyframes = << >>

\* C13: try_from of a motion file with no group, or with a group whose
\* segment fails to build, returns an error and no interpolator.
C13_FailureIsError ==
    (construction.outcome # "Pending" /\ FailsToBuild(construction.motion_file)) =>
        /\ construction.outcome = "Err"
        /\ frames = << >>

\* C14: set_initial_positions(p) sets the start of the first segment to p and
\* changes nothing else: the state (with a position recorded in Aborted), the
\* keyframes, end and duration of the first segment and every later frame stay,
\* and every later segment still starts where the one before it ends.
C14_Rebase ==
    [][last_op'.op = "set_initial_positions" =>
          /\ current_state' = current_state
          /\ Len(frames') = Len(frames)
          /\ \A k \in 1 .. Len(frames) :
                IF k = 1
                THEN /\ frames'[1] = [frames[1] EXCEPT !.spline.start = last_op'.position]
                     /\ end_position(frames'[1].spline) = end_position(frames[1].spline)
                     /\ total_duration(frames'[1].spline) = total_duration(frames[1].spline)
                ELSE /\ frames'[k] = frames[k]
                     /\ start_position(frames'[k].spline) =
                            end_position(frames'[k - 1].spline)]_vars

\* a rebase of a two-segment motion after it was aborted at another position
C14_Witness ==
    /\ last_op.op = "set_initial_positions"
    /\ last_op.position = 6
    /\ Len(frames) = 2
    /\ frames[1].spline.start = 6
    /\ current_state.tag = "Aborted"
    /\ current_state.at_position # 6
    /\ frames[2].spline.start = end_position(frames[1].spline)

\* C15 (as stated): in InterpolateSpline{i, elapsed} the elapsed time is at
\* most the total duration of segment i.
C15_ElapsedWithinDuration ==
    current_state.tag = "InterpolateSpline" =>
        current_state.time_since_start <=
            total_duration(frames[current_state.current_frame_index + 1].spline)

\* C15 (amended): in InterpolateSpline{i, elapsed} the elapsed time is below
\* the total duration of segment i plus the largest time step used since
\* construction or the last reset.
C15_ElapsedOvershoot ==
    current_state.tag = "InterpolateSpline" =>
        \E time_step \in steps :
            current_state.time_since_start <
                total_duration(frames[current_state.current_frame_index + 1].spline)
                    + time_step

\* the elapsed time has passed the duration of the segment
C15_Witness ==
    /\ current_state.tag = "InterpolateSpline"
    /\ current_state.time_since_start >
           total_duration(frames[current_state.current_frame_index + 1].spline)
    /\ Ticked
    /\ prev_state.tag = "InterpolateSpline"
    /\ prev_state.time_since_start > 0

\* the state gates an exit, the interrupts combine to Continue and the exit
\* condition is absent or passes
ExitPasses(fr, state, condition_input) ==
    /\ state.tag = "CheckExit"
    /\ ~index_out_of_bounds(fr, state)
    /\ CombinedVerdict(continuous_conditions(fr, state), condition_input) = "Continue"
    /\ LET condition == fr[state.current_frame_index + 1].exit_condition
       IN  \/ condition = << >>
           \/ with_timeout(evaluate(condition[1], condition_input),
                           timeout(condition[1], state.time_since_start))
                  \notin {"Wait", "Abort"}

\* C16: a tick on which the exit of segment i passes moves to CheckEntry{i+1, 0},
\* or to Finished from the last segment; no other tick changes the frame
\* index, and the calls other than tick and reset leave the state alone.
C16_ExitAdvances ==
    /\ (Ticked /\ ExitPasses(frames, prev_state, last_op.condition_input)) =>
          current_state =
              IF prev_state.current_frame_index # Len(frames) - 1
              THEN CheckEntry(prev_state.current_frame_index + 1, 0)
              ELSE Finished
    /\ (/\ Ticked
        /\ current_frame_index(prev_state) # << >>
        /\ current_frame_index(current_state) # << >>) =>
          \/ current_state.current_frame_index = prev_state.current_frame_index
          \/ /\ current_state.current_frame_index = prev_state.current_frame_index + 1
             /\ ExitPasses(frames, prev_state, last_op.condition_input)
    /\ last_op.op \in {"set_initial_positions", "value"} => current_state = prev_state

\* an exit condition that waited lets the motion into the next segment
C16_Witness ==
    /\ Ticked
    /\ prev_state.tag = "CheckExit"
    /\ prev_state.time_since_start > 0
    /\ frames[prev_state.current_frame_index + 1].exit_condition # << >>
    /\ ExitPasses(frames, prev_state, last_op.condition_input)
    /\ current_state = CheckEntry(1, 0)

\* C17: a tick in Finished or Aborted, on any time step and input, leaves the
\* state as it is and value() where it was; only reset changes a terminal state.
C17_TerminalAbsorbing ==
    /\ (Ticked /\ prev_state.tag \in {"Finished", "Aborted"}) =>
          /\ current_state = prev_state
          /\ value(frames, current_state) = PhasePosition(frames, prev_state)
    /\ (prev_state.tag \in {"Finished", "Aborted"} /\ current_state # prev_state) =>
          last_op.op = "reset"

\* a tick in Finished on an input on which an interrupt of the motion aborts
C17_Witness ==
    /\ Ticked
    /\ prev_state = Finished
    /\ current_state = Finished
    /\ frames[1].motion_interrupts # << >>
    /\ \E k \in 1 .. Len(frames[1].motion_interrupts[1]) :
          evaluate(frames[1].motion_interrupts[1][k], last_op.condition_input) = "Abort"

\* C18: every tick that enters Aborted, by an interrupt or by a gating
\* condition, records the position value() had before the tick: the start of
\* the segment from CheckEntry, the segment at elapsed from InterpolateSpline,
\* the end of the segment from CheckExit.
C18_AbortRecordsValue ==
    (Ticked /\ current_state.tag = "Aborted" /\ prev_state.tag # "Aborted") =>
        /\ prev_state.tag \in {"CheckEntry", "InterpolateSpline", "CheckExit"}
        /\ current_state = Aborted(PhasePosition(frames, prev_state))
        /\ current_state = Aborted(value(frames, prev_state))

\* the exit condition aborts, no interrupt does, and the segment ends away
\* from where it starts
C18_Witness ==
    /\ Ticked
    /\ prev_state.tag = "CheckExit"
    /\ current_state.tag = "Aborted"
    /\ ~AnyInterrupt(frames, prev_state, last_op.condition_input, "Abort")
    /\ LET spline == frames[prev_state.current_frame_index + 1].spline
       IN  /\ end_position(spline) # start_position(spline)
           /\ current_state.at_position = end_position(spline)

\* C20: value() is the same before and after a tick that moves CheckExit{i}
\* to CheckEntry{i+1} (the end of segment i is the start of segment i+1) or
\* the last CheckExit to Finished, and across a tick that stays in CheckEntry
\* or in CheckExit.
C20_NoJump ==
    Ticked =>
        /\ (prev_state.tag = "CheckExit" /\ current_state.tag = "CheckEntry") =>
              /\ current_state.current_frame_index = prev_state.current_frame_index + 1
              /\ end_position(frames[prev_state.current_frame_index + 1].spline)
                    = start_position(frames[current_state.current_frame_index + 1].spline)
              /\ value(frames, current_state) = value(frames, prev_state)
        /\ (prev_state.tag = "CheckExit" /\ current_state.tag = "Finished") =>
              /\ prev_state.current_frame_index = Len(frames) - 1
              /\ value(frames, current_state) = value(frames, prev_state)
        /\ (prev_state.tag \in {"CheckEntry", "CheckExit"}
              /\ current_state.tag = prev_state.tag) =>
              /\ current_state.current_frame_index = prev_state.current_frame_index
              /\ value(frames, current_state) = value(frames, prev_state)

\* a tick from the exit of a segment with two keyframes to the entry of the
\* next segment
C20_Witness ==
    /\ Ticked
    /\ prev_state.tag = "CheckExit"
    /\ current_state.tag = "CheckEntry"
    /\ current_state.current_frame_index = prev_state.current_frame_index + 1
    /\ Len(frames[prev_state.current_frame_index + 1].spline.keyframes) = 2
    /\ value(frames, current_state)
          = frames[prev_state.current_frame_index + 1].spline.keyframes[2].positions

(***************************************************************************)
(* The interpolator under a caller that ticks it once per control cycle,   *)
(* for as long as it likes: the calls are not counted and no history is    *)
(* kept beyond the last call; only a wait at a gate without a timeout      *)
(* is cut off at MaxElapsed.                                               *)
(***************************************************************************)
MaxElapsed == 12   \* longest elapsed time explored at a gate or in a spline

\* the combined verdict of the interrupts of the current frame is Wait
StallsOnInterrupt(fr, state, condition_input) ==
    /\ current_frame_index(state) # << >>
    /\ ~index_out_of_bounds(fr, state)
    /\ CombinedVerdict(continuous_conditions(fr, state), condition_input) = "Wait"

\* the state waits at a gate whose condition answers Wait and has no timeout
WaitsWithoutTimeout(fr, state, condition_input) ==
    /\ GateSaysWait(fr, state, condition_input)
    /\ GatingCondition(fr, state)[1].timeout_duration = << >>

\* MotionInterpolator::advance_by, one call of an unbounded run
Tick(time_step, condition_input) ==
    /\ ~panicked
    /\ IF index_out_of_bounds(frames, current_state)
       THEN /\ panicked' = TRUE
            /\ UNCHANGED current_state
       ELSE LET next == advance_by(frames, current_state, time_step, condition_input)
            IN  /\ next.time_since_start <= MaxElapsed
                /\ current_state' = next
                /\ UNCHANGED panicked
    /\ last_op' = Call("advance_by", time_step, condition_input, 0)
    /\ prev_state' = current_state
    /\ UNCHANGED <<frames, construction, ticks, steps, visited>>

\* a tick on which the interrupts stall the motion, or on which a gate
\* without a timeout says Wait
HeldTick ==
    \E time_step \in TimeSteps, condition_input \in ConditionInput :
        /\ \/ StallsOnInterrupt(frames, current_state, condition_input)
           \/ WaitsWithoutTimeout(frames, current_state, condition_input)
        /\ Tick(time_step, condition_input)

\* any other tick
FreeTick ==
    \E time_step \in TimeSteps, condition_input \in ConditionInput :
        /\ ~StallsOnInterrupt(frames, current_state, condition_input)
        /\ ~WaitsWithoutTimeout(frames, current_state, condition_input)
        /\ Tick(time_step, condition_input)

NextLive == HeldTick \/ FreeTick

\* the caller never stops ticking, and does not hold the motion for ever
LiveSpec == Init /\ [][NextLive]_vars /\ WF_vars(FreeTick)

\* C19: a run of ticks with positive time steps, none of which panics, on
\* which the interrupts stall and the gates without a timeout say Wait only
\* finitely often, reaches Finished or Aborted and stays there; and a tick
\* on which an interrupt says Wait leaves the state as it is, elapsed time
\* included, unless another interrupt aborts the motion.
C19_Termination ==
    /\ [](~panicked) => <>[]is_finished(current_state)
    /\ []((Ticked /\ AnyInterrupt(frames, prev_state, last_op.condition_input, "Wait")) =>
             \/ current_state = prev_state
             \/ /\ AnyInterrupt(frames, prev_state, last_op.condition_input, "Abort")
                /\ current_state = Aborted(value(frames, prev_state)))

\* the run ends because the timeout of an exit condition that kept saying
\* Wait ran out
C19_Witness ==
    /\ Ticked
    /\ prev_state.tag = "CheckExit"
    /\ prev_state.time_since_start > 0
    /\ GateSaysWait(frames, prev_state, last_op.condition_input)
    /\ NoInterruptFires(frames, prev_state, last_op.condition_input)
    /\ is_finished(current_state)

====
